---- MODULE Spec2Model ----
(***************************************************************************)
(* Model of the Sudoku solver (sudoku.py, grid.py): the command-line       *)
(* program reads a grid file, validates it (Grid.read_gridfile and         *)
(* Sudoku.check_grid), solves it by single-candidate elimination           *)
(* (Sudoku.solve) and prints the completed grid.                           *)
(*                                                                         *)
(* Python lists are TLA+ sequences, so the code's zero-based self[i, j]    *)
(* (column i, row j) is grid[j + 1][i + 1].                                *)
(***************************************************************************)
EXTENDS Integers, Sequences, FiniteSets

VARIABLES
    argv,         \* sys.argv: <<program>> or <<program, filename>>
    readable,     \* whether open(grid_file) succeeds
    file,         \* the file: a sequence of lines, each the tokens of line.strip().split(' ')
    grid,         \* Grid.grid
    n_rows,       \* Grid.n_rows
    n_cols,       \* Grid.n_cols
    pc,           \* position of the program
    i,            \* outer loop variable of solve (a column index)
    j,            \* inner loop variable of solve (a row index)
    found_one,    \* local of solve
    exc,          \* the exception that ended the program, or NoExc
    stdout,       \* what the program printed: a message and the rows of print_grid
    exit_status,  \* exit status of the interpreter once pc = "exit"
    pass_grid,    \* the grid as it was when the current pass of solve began
    passes,       \* number of passes of solve begun
    assigned      \* cells <<i, j>> assigned in the current pass, in order

vars == <<argv, readable, file, grid, n_rows, n_cols, pc, i, j, found_one,
          exc, stdout, exit_status, pass_grid, passes, assigned>>

-----------------------------------------------------------------------------
(* Program constants.                                                      *)

n == 9

digits == 1..9

quadrants == [k \in 0..2 |-> {3 * k, 3 * k + 1, 3 * k + 2}]

NoExc == [type |-> "none", msg |-> "", at |-> <<>>]

MsgNoFile == "Error, no input file was specified."
MsgUnreadable == "Error, could not read specified file."
Msg9x9 == "Error, input grid must be 9x9."
MsgUnequal == "Error, unequal row lengths in input grid."
MsgDigits == "Error, input grid must containdigits 0-9 only."
MsgRow == "Error, duplicate digits found in row {}."
MsgCol == "Error, duplicate digits found in column {}."
MsgQuad == "Error, duplicate digits found in quadrant {}, {}"
MsgCannotSolve == "Error, cannot solve."

-----------------------------------------------------------------------------
(* Grid.                                                                   *)

\* Grid.__getitem__: self[i, j] is column i of row j.
Get(g, col, row) == g[row + 1][col + 1]

\* Grid.__setitem__: self[i, j] = value.
Set(g, col, row, value) ==
    [g EXCEPT ![row + 1] = [g[row + 1] EXCEPT ![col + 1] = value]]

\* int(): the integer a token denotes; tokens outside the domain do not parse.
IntOf ==
    [t \in {"-1", "0", "1", "2", "3", "4", "5", "6", "7", "8", "9", "10"} |->
        CASE t = "-1" -> 0 - 1
          [] t = "0" -> 0
          [] t = "1" -> 1
          [] t = "2" -> 2
          [] t = "3" -> 3
          [] t = "4" -> 4
          [] t = "5" -> 5
          [] t = "6" -> 6
          [] t = "7" -> 7
          [] t = "8" -> 8
          [] t = "9" -> 9
          [] t = "10" -> 10]

\* Whether convert_line_to_int succeeds on a line.
LineConverts(line) == \A k \in DOMAIN line : line[k] \in DOMAIN IntOf

\* Grid.convert_line_to_int.
convert_line_to_int(line) == [k \in DOMAIN line |-> IntOf[line[k]]]

\* The list comprehension of read_gridfile.
ReadLines(f) == [k \in DOMAIN f |-> convert_line_to_int(f[k])]

\* Grid.check_grid: TRUE iff every row has n_cols entries.
EqualRowLengths(g, cols) == \A k \in DOMAIN g : Len(g[k]) = cols

-----------------------------------------------------------------------------
(* Sudoku: validation.                                                     *)

Cols == 0..(n - 1)

\* check_for_invalid_digits: some cell is not in range(self.n).
HasInvalidDigit(g) == \E a \in Cols, b \in Cols : Get(g, a, b) \notin 0..(n - 1)

\* check_for_row_duplicates with its indices transposed (self[row, i]).
RowDupTransposed(g, row) ==
    \E a \in Cols, b \in Cols :
        a < b /\ Get(g, row, b) # 0 /\ Get(g, row, b) = Get(g, row, a)

\* check_for_row_duplicates raises for this row.
RowDup(g, row) ==
    \E a \in Cols, b \in Cols :
        a < b /\ Get(g, b, row) # 0 /\ Get(g, b, row) = Get(g, a, row)

\* check_for_column_duplicates raises for this column.
ColDup(g, col) ==
    \E a \in Cols, b \in Cols :
        a < b /\ Get(g, col, b) # 0 /\ Get(g, col, b) = Get(g, col, a)

\* check_for_quadrant_duplicates raises for quadrant x (columns), y (rows).
QuadDup(g, x, y) ==
    \E a \in quadrants[x], b \in quadrants[y], c \in quadrants[x], d \in quadrants[y] :
        <<a, b>> # <<c, d>> /\ Get(g, a, b) # 0 /\ Get(g, a, b) = Get(g, c, d)

Raise(type, msg, at) == [type |-> type, msg |-> msg, at |-> at]

\* The loop "for i in range(n): rows(i); columns(i)": the first check that raises.
FirstLineDup(g) ==
    LET bad == {k \in Cols : RowDup(g, k) \/ ColDup(g, k)}
        k == CHOOSE m \in bad : \A m2 \in bad : m <= m2
    IN  IF RowDup(g, k)
        THEN Raise("InvalidGridError", MsgRow, <<k>>)
        ELSE Raise("InvalidGridError", MsgCol, <<k>>)

\* The loop over quadrants, x outermost: the first check that raises.
FirstQuadDup(g) ==
    LET bad == {q \in (0..2) \X (0..2) : QuadDup(g, q[1], q[2])}
        q == CHOOSE m \in bad :
                \A m2 \in bad : m[1] < m2[1] \/ (m[1] = m2[1] /\ m[2] <= m2[2])
    IN  Raise("InvalidGridError", MsgQuad, q)

\* Sudoku.check_grid: the exception it raises, or NoExc.
check_grid(g, rows, cols) ==
    IF ~(rows = n /\ cols = n) THEN Raise("InvalidGridError", Msg9x9, <<>>)
    ELSE IF ~EqualRowLengths(g, cols) THEN Raise("InvalidGridError", MsgUnequal, <<>>)
    ELSE IF HasInvalidDigit(g) THEN Raise("InvalidGridError", MsgDigits, <<>>)
    ELSE IF \E k \in Cols : RowDup(g, k) \/ ColDup(g, k) THEN FirstLineDup(g)
    ELSE IF \E x \in 0..2, y \in 0..2 : QuadDup(g, x, y) THEN FirstQuadDup(g)
    ELSE NoExc

-----------------------------------------------------------------------------
(* Sudoku: solving.                                                        *)

\* complete returning after the first cell it looks at.
complete_first_cell(g) == Get(g, 0, 0) # 0

\* Sudoku.complete.
complete(g) == \A a \in Cols, b \in Cols : Get(g, a, b) # 0

\* Sudoku.quadrant_limits.
quadrant_limits(x) == quadrants[CHOOSE k \in 0..2 : x \in quadrants[k]]

\* remove_digits_in_quadrant: the values it discards.
QuadrantValues(g, col, row) ==
    {Get(g, a, b) : a \in quadrant_limits(col), b \in quadrant_limits(row)}

\* remove_digits_in_col: the values it discards.
ColValues(g, col) == {Get(g, col, b) : b \in Cols}

\* remove_digits_in_row: the values it discards.
RowValues(g, row) == {Get(g, a, row) : a \in Cols}

\* check_possible_digits without remove_digits_in_row.
check_possible_digits_no_row(g, col, row) ==
    (digits \ QuadrantValues(g, col, row)) \ ColValues(g, col)

\* Sudoku.check_possible_digits.
check_possible_digits(g, col, row) ==
    ((digits \ QuadrantValues(g, col, row)) \ ColValues(g, col)) \ RowValues(g, row)

-----------------------------------------------------------------------------
(* The input files considered.  A puzzle file is a solved grid written as  *)
(* tokens, with some cells blanked to "0" and optionally one token         *)
(* overwritten; the other files are empty, too short, too narrow or ragged. *)

MaxBlanks == 3

Literal == <<"1", "2", "3", "4", "5", "6", "7", "8", "9">>

\* A solved Sudoku: the digit at column col of row row.
Solution(col, row) == ((3 * (row % 3) + (row \div 3) + col) % n) + 1

\* The cells <<col, row>> of the solved grid that hold the digit 9.
Nines == {c \in Cols \X Cols : Solution(c[1], c[2]) = n}

\* Further cells that a puzzle file may leave blank.
BlankPool == {<<2, 0>>, <<8, 1>>, <<5, 2>>, <<0, 0>>, <<1, 0>>, <<0, 3>>, <<7, 5>>}

\* Cells whose token a puzzle file may overwrite, and the tokens written.
MutCells == {<<0, 3>>, <<4, 1>>, <<2, 0>>, <<8, 0>>}
MutTokens == {"3", "5", "9", "10", "x"}

NoMut == [on |-> FALSE, cell |-> <<0, 0>>, tok |-> "0"]
Muts == {NoMut} \cup {[on |-> TRUE, cell |-> c, tok |-> t] : c \in MutCells, t \in MutTokens}

PuzzleFile(blank, mut) ==
    [r \in 1..n |-> [c \in 1..n |->
        IF mut.on /\ mut.cell = <<c - 1, r - 1>> THEN mut.tok
        ELSE IF <<c - 1, r - 1>> \in blank THEN "0"
        ELSE Literal[Solution(c - 1, r - 1)]]]

PuzzleFiles ==
    {PuzzleFile(nines \cup extra, mut) :
        nines \in {{}, Nines},
        extra \in {b \in SUBSET BlankPool : Cardinality(b) <= MaxBlanks},
        mut \in Muts}

Blanked == PuzzleFile(Nines, NoMut)

OddFiles ==
    { <<>>,
      SubSeq(Blanked, 1, n - 1),
      [r \in 1..n |-> SubSeq(Blanked[r], 1, n - 1)],
      [Blanked EXCEPT ![1] = SubSeq(Blanked[1], 1, n - 1)],
      [Blanked EXCEPT ![5] = SubSeq(Blanked[5], 1, n - 1)],
      [Blanked EXCEPT ![2] = <<"">>] }

Files == PuzzleFiles \cup OddFiles

-----------------------------------------------------------------------------
(* The program.                                                            *)

NoOutput == [msg |-> "", rows |-> <<>>]

Init ==
    /\ \/ argv = <<"sudoku.py">> /\ readable = FALSE /\ file = <<>>
       \/ argv = <<"sudoku.py", "grid.txt">> /\ readable = FALSE /\ file = <<>>
       \/ argv = <<"sudoku.py", "grid.txt">> /\ readable = TRUE /\ file \in Files
    /\ grid = <<>>
    /\ n_rows = 0
    /\ n_cols = 0
    /\ pc = "main"
    /\ i = 0
    /\ j = 0
    /\ found_one = FALSE
    /\ exc = NoExc
    /\ stdout = NoOutput
    /\ exit_status = 0
    /\ pass_grid = <<>>
    /\ passes = 0
    /\ assigned = <<>>

\* The exception Sudoku(argv[1]) raises, or NoExc: argv[1], open(),
\* the list comprehension, len(self.grid[0]) and check_grid, in that order.
ConstructExc ==
    IF Len(argv) < 2 THEN Raise("IndexError", "", <<>>)
    ELSE IF ~readable THEN Raise("IOError", "", <<>>)
    ELSE IF \E k \in DOMAIN file : ~LineConverts(file[k])
        THEN Raise("CouldNotConvertInt", "", <<>>)
    ELSE IF Len(file) = 0 THEN Raise("IndexError", "", <<>>)
    ELSE check_grid(ReadLines(file), Len(file), Len(ReadLines(file)[1]))

\* Whether read_gridfile got as far as assigning self.grid.
GridWasRead == Len(argv) >= 2 /\ readable /\ \A k \in DOMAIN file : LineConverts(file[k])

\* __main__, lines 169-175: construct the Sudoku; IOError and IndexError are
\* caught and reported, any other exception ends the program with a traceback.
Main ==
    /\ pc = "main"
    /\ grid' = IF GridWasRead THEN ReadLines(file) ELSE grid
    /\ n_rows' = IF GridWasRead THEN Len(file) ELSE n_rows
    /\ n_cols' = IF GridWasRead /\ Len(file) > 0 THEN Len(ReadLines(file)[1]) ELSE n_cols
    /\ exc' = ConstructExc
    /\ stdout' = IF ConstructExc.type = "IOError" THEN [NoOutput EXCEPT !.msg = MsgUnreadable]
                 ELSE IF ConstructExc.type = "IndexError" THEN [NoOutput EXCEPT !.msg = MsgNoFile]
                 ELSE stdout
    /\ exit_status' = IF ConstructExc.type \in {"none", "IOError", "IndexError"} THEN 0 ELSE 1
    /\ pc' = IF ConstructExc = NoExc THEN "while" ELSE "exit"
    /\ UNCHANGED <<argv, readable, file, i, j, found_one, pass_grid, passes, assigned>>

\* solve, line 92-93: the while test, and the start of a pass.
WhileTest ==
    /\ pc = "while"
    /\ IF complete(grid)
       THEN /\ pc' = "print"
            /\ UNCHANGED <<i, j, found_one, pass_grid, passes, assigned>>
       ELSE /\ pc' = "scan"
            /\ found_one' = FALSE
            /\ i' = 0
            /\ j' = 0
            /\ pass_grid' = grid
            /\ passes' = passes + 1
            /\ assigned' = <<>>
    /\ UNCHANGED <<argv, readable, file, grid, n_rows, n_cols, exc, stdout, exit_status>>

\* Whether the loop body assigns self[i, j].
Assigns(g, col, row) ==
    Get(g, col, row) = 0 /\ Cardinality(check_possible_digits(g, col, row)) = 1

\* The inner loop with the loops exchanged: i counts rows, j columns.
ScanCellRowMajor ==
    /\ pc = "scan"
    /\ IF Assigns(grid, j, i)
       THEN /\ found_one' = TRUE
            /\ grid' = Set(grid, j, i, CHOOSE d \in check_possible_digits(grid, j, i) : TRUE)
            /\ assigned' = Append(assigned, <<j, i>>)
       ELSE UNCHANGED <<found_one, grid, assigned>>
    /\ IF j + 1 < n THEN i' = i /\ j' = j + 1 /\ pc' = "scan"
       ELSE IF i + 1 < n THEN i' = i + 1 /\ j' = 0 /\ pc' = "scan"
       ELSE i' = i /\ j' = j /\ pc' = "passend"
    /\ UNCHANGED <<argv, readable, file, n_rows, n_cols, exc, stdout, exit_status,
                   pass_grid, passes>>

\* solve, lines 95-103: one iteration of the inner loop, at self[i, j].
ScanCell ==
    /\ pc = "scan"
    /\ IF Assigns(grid, i, j)
       THEN /\ found_one' = TRUE
            /\ grid' = Set(grid, i, j, CHOOSE d \in check_possible_digits(grid, i, j) : TRUE)
            /\ assigned' = Append(assigned, <<i, j>>)
       ELSE UNCHANGED <<found_one, grid, assigned>>
    /\ IF j + 1 < n THEN i' = i /\ j' = j + 1 /\ pc' = "scan"
       ELSE IF i + 1 < n THEN i' = i + 1 /\ j' = 0 /\ pc' = "scan"
       ELSE i' = i /\ j' = j /\ pc' = "passend"
    /\ UNCHANGED <<argv, readable, file, n_rows, n_cols, exc, stdout, exit_status,
                   pass_grid, passes>>

\* The end of a pass without the check of found_one.
PassEndNeverRaises ==
    /\ pc = "passend"
    /\ pc' = "while"
    /\ UNCHANGED <<argv, readable, file, grid, n_rows, n_cols, i, j, found_one, exc,
                   stdout, exit_status, pass_grid, passes, assigned>>

\* The end of a pass with the test of found_one inverted.
PassEndInverted ==
    /\ pc = "passend"
    /\ IF found_one
       THEN /\ exc' = Raise("Exception", MsgCannotSolve, <<>>)
            /\ exit_status' = 1
            /\ pc' = "exit"
       ELSE /\ pc' = "while"
            /\ UNCHANGED <<exc, exit_status>>
    /\ UNCHANGED <<argv, readable, file, grid, n_rows, n_cols, i, j, found_one, stdout,
                   pass_grid, passes, assigned>>

\* solve, lines 107-108: after a pass, raise unless a digit was found.
PassEnd ==
    /\ pc = "passend"
    /\ IF ~found_one
       THEN /\ exc' = Raise("Exception", MsgCannotSolve, <<>>)
            /\ exit_status' = 1
            /\ pc' = "exit"
       ELSE /\ pc' = "while"
            /\ UNCHANGED <<exc, exit_status>>
    /\ UNCHANGED <<argv, readable, file, grid, n_rows, n_cols, i, j, found_one, stdout,
                   pass_grid, passes, assigned>>

\* __main__, line 177, and Grid.print_grid: print the rows and exit.
PrintGrid ==
    /\ pc = "print"
    /\ stdout' = [stdout EXCEPT !.rows = [r \in 1..n_rows |-> [c \in 1..n_cols |-> Get(grid, c - 1, r - 1)]]]
    /\ pc' = "exit"
    /\ UNCHANGED <<argv, readable, file, grid, n_rows, n_cols, i, j, found_one, exc,
                   exit_status, pass_grid, passes, assigned>>

Next == Main \/ WhileTest \/ ScanCell \/ PassEnd \/ PrintGrid

Spec == Init /\ [][Next]_vars

-----------------------------------------------------------------------------
(* Vocabulary of the properties, stated without the program's operators.   *)

Cells == Cols \X Cols

At(g, c) == g[c[2] + 1][c[1] + 1]

\* Two different cells <<col, row>> in one row, one column or one 3x3 block.
SameRow(c, d) == c[2] = d[2]
SameCol(c, d) == c[1] = d[1]
SameBlock(c, d) == (c[1] \div 3) = (d[1] \div 3) /\ (c[2] \div 3) = (d[2] \div 3)
Peers(c, d) == c # d /\ (SameRow(c, d) \/ SameCol(c, d) \/ SameBlock(c, d))

Is9x9(g) == Len(g) = 9 /\ \A r \in DOMAIN g : Len(g[r]) = 9

\* The nine cells of row k, of column k and of block k, each numbered 0..8.
RowCell(k, m) == <<m, k>>
ColCell(k, m) == <<k, m>>
BlockCell(k, m) == <<3 * (k % 3) + (m % 3), 3 * (k \div 3) + (m \div 3)>>

\* No non-zero value occurs twice in a row, a column or a block.
NoRepeats(g) ==
    \A k \in Cols, a \in Cols, b \in Cols :
        a < b =>
            /\ At(g, RowCell(k, a)) # 0 => At(g, RowCell(k, a)) # At(g, RowCell(k, b))
            /\ At(g, ColCell(k, a)) # 0 => At(g, ColCell(k, a)) # At(g, ColCell(k, b))
            /\ At(g, BlockCell(k, a)) # 0 => At(g, BlockCell(k, a)) # At(g, BlockCell(k, b))

RowHasRepeat(g, row) ==
    \E a \in Cols, b \in Cols :
        a # b /\ At(g, <<a, row>>) # 0 /\ At(g, <<a, row>>) = At(g, <<b, row>>)

ColHasRepeat(g, col) ==
    \E a \in Cols, b \in Cols :
        a # b /\ At(g, <<col, a>>) # 0 /\ At(g, <<col, a>>) = At(g, <<col, b>>)

Unknowns(g) == {c \in Cells : At(g, c) = 0}

\* A file was named and read, and every token of it is an integer literal.
FileParsed == Len(argv) >= 2 /\ readable /\ \A k \in DOMAIN file : LineConverts(file[k])

\* The grid the file denotes (when FileParsed).
InputGrid == ReadLines(file)

InputIs9x9 == FileParsed /\ Is9x9(InputGrid)

\* Construction (Grid load and check_grid) has run and raised nothing.
Constructed == pc # "main" /\ exc.type \in {"none", "Exception"}

\* solve has returned normally.
SolveReturned == pc = "print" \/ (pc = "exit" /\ exc = NoExc)

\* solve has failed.
SolveFailed == pc = "exit" /\ exc.type = "Exception"

-----------------------------------------------------------------------------
(* C1.                                                                     *)

\* C1: every 9x9 grid with all values in 0..9 and no non-zero digit repeated
\* in a row, column or block is constructed without an error.
ValidationSound ==
    (pc # "main" /\ InputIs9x9
        /\ (\A c \in Cells : At(InputGrid, c) \in 0..9)
        /\ NoRepeats(InputGrid))
    => Constructed

-----------------------------------------------------------------------------
(* C2.                                                                     *)

\* C2: every completed pass of solve on a validated grid has assigned a cell
\* that was unknown when the pass began (strictly fewer unknown cells) unless
\* solve failed, and the number of passes is at most the number of unknown
\* cells of the input plus one, and at most 82.
SolveTerminates ==
    Constructed =>
        /\ passes <= Cardinality(Unknowns(InputGrid)) + 1
        /\ passes <= 82
        /\ (passes > 0 /\ (pc \in {"while", "print"} \/ (pc = "passend" /\ found_one)))
            => /\ Unknowns(grid) \subseteq Unknowns(pass_grid)
               /\ Unknowns(grid) # Unknowns(pass_grid)
        /\ (pc = "exit") => (SolveFailed \/ Unknowns(grid) = {})

\* C2 happens: a second pass has ended and has assigned a cell.
SecondPassProgress == pc = "passend" /\ passes = 2 /\ found_one

-----------------------------------------------------------------------------
(* C3.                                                                     *)

\* C3: after a pass that assigned nothing the only continuation is the
\* failure of solve (no return, no further pass), and at the failure the
\* grid is the grid the stalled pass began with, so that the digits of
\* earlier passes are still there.
StalledPassFails ==
    /\ (Constructed /\ passes > 0 /\ pc \in {"while", "print", "exit"} /\ grid = pass_grid)
        => (SolveFailed /\ stdout = NoOutput /\ exit_status # 0)
    /\ SolveFailed
        => /\ grid = pass_grid
           /\ Unknowns(grid) # {}
           /\ \A c \in Cells : At(InputGrid, c) # 0 => At(grid, c) = At(InputGrid, c)

\* C3 happens: solve failed in its second pass, with the digits of the first
\* pass in the grid.
FailedAfterProgress == SolveFailed /\ passes = 2 /\ grid # InputGrid

-----------------------------------------------------------------------------
(* C4.                                                                     *)

PeerValues(g, c) == {At(g, d) : d \in {e \in Cells : Peers(c, e)}}

\* Exactly one cell is unknown, and exactly one digit of 1..9 is absent from
\* its row, column and block.
OneUnknownForced(g) ==
    /\ Cardinality(Unknowns(g)) = 1
    /\ \A u \in Unknowns(g) : Cardinality((1..9) \ PeerValues(g, u)) = 1

\* C4: for a valid 9x9 grid with exactly one unknown cell, whose value is
\* forced, the program ends with solve returned, that cell holding the
\* missing digit, every other cell unchanged and the grid complete.
EliminationFillsForcedCell ==
    (pc = "exit" /\ InputIs9x9 /\ NoRepeats(InputGrid) /\ OneUnknownForced(InputGrid))
    => /\ exc = NoExc
       /\ Is9x9(grid)
       /\ Unknowns(grid) = {}
       /\ \A c \in Cells :
            At(grid, c) = IF c \in Unknowns(InputGrid)
                          THEN CHOOSE d \in (1..9) \ PeerValues(InputGrid, c) : TRUE
                          ELSE At(InputGrid, c)

-----------------------------------------------------------------------------
(* C5.                                                                     *)

\* C5: in every state after a successful construction, inside a pass and at
\* a failure of solve included, the grid is 9x9, every value is in 0..9 and
\* no non-zero value occurs twice in a row, a column or a block.
PostValidationInvariant ==
    Constructed =>
        /\ n_rows = 9 /\ n_cols = 9 /\ Is9x9(grid)
        /\ \A c \in Cells : At(grid, c) \in 0..9
        /\ NoRepeats(grid)

\* C5 happens: inside a pass, after two assignments, with a cell still unknown.
MidPassAfterAssignments ==
    pc = "scan" /\ Len(assigned) >= 2 /\ Unknowns(grid) # {} /\ grid # pass_grid

-----------------------------------------------------------------------------
(* C6.                                                                     *)

RepeatRows(g) == {r \in Cols : RowHasRepeat(g, r)}

\* The state construction leaves: the program has ended, or solve is entered.
AfterConstruction == pc = "exit" \/ (pc = "while" /\ passes = 0)

\* C6 as stated, on the grids whose values are all in 0..8 (the digit-range
\* check accepts them, so the outcome rests on the duplicate checks alone):
\* a 9x9 grid with a repeated non-zero digit in row r fails construction
\* with an invalid-grid error that names row r.
RowRepeatNamesItsRow ==
    (AfterConstruction /\ InputIs9x9 /\ \A c \in Cells : At(InputGrid, c) \in 0..8)
    => \A r \in RepeatRows(InputGrid) : exc = Raise("InvalidGridError", MsgRow, <<r>>)

\* C6 amended: a 9x9 grid with a repeated non-zero digit in some row fails
\* construction with an invalid-grid error; the error names row r when the
\* digit-range check accepts the grid, r is the first row with a repeat and
\* no column before r has a repeat; otherwise it is the digit-range error or
\* names an earlier column.
RowRepeatRejected ==
    (AfterConstruction /\ InputIs9x9 /\ RepeatRows(InputGrid) # {})
    => LET r == CHOOSE m \in RepeatRows(InputGrid) : \A m2 \in RepeatRows(InputGrid) : m <= m2
           early == {c \in Cols : c < r /\ ColHasRepeat(InputGrid, c)}
       IN  /\ pc = "exit"
           /\ exit_status # 0
           /\ exc.type = "InvalidGridError"
           /\ IF HasInvalidDigit(InputGrid) THEN exc.msg = MsgDigits
              ELSE IF early = {} THEN exc = Raise("InvalidGridError", MsgRow, <<r>>)
              ELSE exc.msg = MsgCol /\ exc.at[1] \in early

\* C6 happens: a grid with a repeat in row 1 was rejected with the error of row 1.
RowOneRejected ==
    /\ pc = "exit" /\ InputIs9x9 /\ RowHasRepeat(InputGrid, 1)
    /\ exc = Raise("InvalidGridError", MsgRow, <<1>>)

-----------------------------------------------------------------------------
(* C7.                                                                     *)

\* C7: a run without a file argument shows the message of the missing
\* argument, ends with a non-zero exit status and neither solves nor prints.
NoArgumentExitsNonZero ==
    (pc = "exit" /\ Len(argv) < 2)
    => /\ stdout.msg = MsgNoFile
       /\ stdout.rows = <<>>
       /\ passes = 0
       /\ exit_status # 0

-----------------------------------------------------------------------------
(* C8.                                                                     *)

\* C8: when solve has returned, no cell is 0, every row, column and block
\* holds each digit of 1..9 exactly once, and every cell that was non-zero in
\* the input has its input value.
SolvedGridIsSolution ==
    SolveReturned =>
        /\ Is9x9(grid)
        /\ \A c \in Cells : At(grid, c) \in 1..9
        /\ \A d \in 1..9, k \in Cols :
            /\ Cardinality({c \in Cells : c[2] = k /\ At(grid, c) = d}) = 1
            /\ Cardinality({c \in Cells : c[1] = k /\ At(grid, c) = d}) = 1
            /\ Cardinality({c \in Cells : SameBlock(c, <<3 * (k % 3), 3 * (k \div 3)>>)
                                          /\ At(grid, c) = d}) = 1
        /\ \A c \in Cells : At(InputGrid, c) # 0 => At(grid, c) = At(InputGrid, c)

\* C8 happens: solve returned after two passes and the grid was printed.
SolvedInTwoPasses == pc = "exit" /\ exc = NoExc /\ passes = 2 /\ stdout.rows = grid

-----------------------------------------------------------------------------
(* C9.                                                                     *)

RowMajorBefore(c, d) == c[2] < d[2] \/ (c[2] = d[2] /\ c[1] < d[1])

ColMajorBefore(c, d) == c[1] < d[1] \/ (c[1] = d[1] /\ c[2] < d[2])

\* C9 as stated: of two cells assigned in one pass, the one that comes first
\* in row-major order (row first) was assigned first.
ScanIsRowMajor ==
    \A k \in DOMAIN assigned, l \in DOMAIN assigned :
        k < l => RowMajorBefore(assigned[k], assigned[l])

\* C9 amended: within a pass the cells are examined in column-major order
\* (all rows of column 0, then all rows of column 1, ...): of two cells
\* assigned in one pass the one with the smaller (column, row) position,
\* column first, was assigned first, it precedes the cell being examined, and
\* its digit is in the grid when the later candidates are computed.
ScanIsColumnMajor ==
    /\ \A k \in DOMAIN assigned, l \in DOMAIN assigned :
        k < l => ColMajorBefore(assigned[k], assigned[l])
    /\ \A k \in DOMAIN assigned :
        /\ At(grid, assigned[k]) # 0
        /\ At(pass_grid, assigned[k]) = 0
        /\ pc = "scan" => ColMajorBefore(assigned[k], <<i, j>>)

\* C9 happens: two cells were assigned in one pass, the first of them in a
\* later row than the second.
TwoAssignedInOnePass ==
    Len(assigned) >= 2 /\ assigned[1][2] > assigned[2][2]

-----------------------------------------------------------------------------
(* C10.                                                                    *)

\* C10: the message of the missing argument appears only when no argument
\* was given, and with a readable file every failure of construction is a
\* parse error or an invalid-grid error, never that message or the message
\* of the unreadable file.
MissingArgumentMessageOnlyWithoutArgument ==
    /\ (pc = "exit" /\ stdout.msg = MsgNoFile) => Len(argv) < 2
    /\ (pc = "exit" /\ Len(argv) >= 2 /\ readable /\ ~Constructed)
        => /\ exc.type \in {"CouldNotConvertInt", "InvalidGridError"}
           /\ stdout.msg \notin {MsgNoFile, MsgUnreadable}

====
